---- MODULE Spec2Model ----
(***************************************************************************)
(* The request-handling pipeline of app.py: client identification, the     *)
(* fixed-window rate limiter, the wake-word gate, the context injector,    *)
(* the provider orchestrator (Groq, then Hugging Face) and the two         *)
(* provider adapters.  A request is a coroutine; it can be suspended only  *)
(* at an await (the request body, a provider call), so every action below  *)
(* is the code between two awaits.                                         *)
(*                                                                         *)
(* Text is a sequence of one-character strings (fixed pieces of a          *)
(* formatted message are single tokens).  Floats are integers in tenths    *)
(* (0.7 is 7); time.time() is an integer number of seconds.                *)
(***************************************************************************)
EXTENDS Integers, Sequences, FiniteSets, TLC

\* ------------------------------------------------------------ bounds
\* limits PER_MINUTE and DAILY_CAP are drawn from 1..MaxLimit
MaxLimit == 2
\* chat requests accepted over one behaviour
MaxRequests == 3
\* steps of the wall clock over one behaviour
MaxTicks == 2

\* calls of hit() made on its own over one behaviour
MaxHits == 3
\* calls of hit() made for one key around the end of its window
MaxBurst == 5

\* ------------------------------------------------------------ text
Letters == <<"a", "b", "c", "d", "e", "f", "g", "h", "i", "j", "k", "l", "m",
             "n", "o", "p", "q", "r", "s", "t", "u", "v", "w", "x", "y", "z">>
Capitals == <<"A", "B", "C", "D", "E", "F", "G", "H", "I", "J", "K", "L", "M",
              "N", "O", "P", "Q", "R", "S", "T", "U", "V", "W", "X", "Y", "Z">>

\* str.lower() of a capital letter
LowerOf ==
    [c \in {Capitals[i] : i \in 1..Len(Capitals)} |->
        Letters[CHOOSE i \in 1..Len(Capitals) : Capitals[i] = c]]

\* str.lower() of one character (re.IGNORECASE compares case-folded)
Lower(c) == IF c \in DOMAIN LowerOf THEN LowerOf[c] ELSE c

\* the characters \w of the regex matches: a letter, a digit, the underscore
WordChars ==
    {Letters[i] : i \in 1..Len(Letters)} \cup {Capitals[i] : i \in 1..Len(Capitals)}
    \cup {"0", "1", "2", "3", "4", "5", "6", "7", "8", "9", "_"}

IsWordChar(c) == c \in WordChars

\* \b of the regex at the gap after position p of text (p = 0: the start)
WordBoundary(text, p) ==
    LET left  == p >= 1 /\ IsWordChar(text[p])
        right == p + 1 <= Len(text) /\ IsWordChar(text[p + 1])
    IN  left # right

\* ASSISTANT_NAME, the default of the environment variable
ASSISTANT_NAME == <<"M", "a", "r", "i", "o", "n">>

\* re.search(rf"\b{re.escape(ASSISTANT_NAME)}\b", text or "", re.IGNORECASE)
mentions_name(text) ==
    LET n == Len(ASSISTANT_NAME)
    IN  \E i \in 0..(Len(text) - n) :
            /\ WordBoundary(text, i)
            /\ \A j \in 1..n : Lower(text[i + j]) = Lower(ASSISTANT_NAME[j])
            /\ WordBoundary(text, i + n)

\* ------------------------------------------------------------ values
\* Python's None / JSON null, where a string is expected
None == "<None>"

\* dict.get(key, default)
Get(d, key, default) == IF key \in DOMAIN d THEN d[key] ELSE default

\* a JSON value with its type: t in {"null", "num", "word", "list", "dict"},
\* v the value as a sequence (a number is a one-element sequence, a word is
\* text that is not a number)
JNull == [t |-> "null", v |-> <<>>]
JNum(n) == [t |-> "num", v |-> <<n>>]
JWord(text) == [t |-> "word", v |-> text]
JList(items) == [t |-> "list", v |-> items]

\* ------------------------------------------------------------ client_ip
\* strings ipaddress.ip_address() accepts, among those the requests carry
ValidAddresses == {"10.0.0.1", "10.0.0.2", "10.0.0.9", "0.0.0.0"}

\* str.split(",")[0] of a header given as tokens (an address, a word, "," or " ")
FirstField(tokens) ==
    IF \E i \in 1..Len(tokens) : tokens[i] = ","
    THEN SubSeq(tokens, 1, (CHOOSE i \in 1..Len(tokens) :
                               /\ tokens[i] = ","
                               /\ \A j \in 1..(i - 1) : tokens[j] # ",") - 1)
    ELSE tokens

\* str.strip()
RECURSIVE Strip(_)
Strip(tokens) ==
    IF tokens = <<>> THEN <<>>
    ELSE IF Head(tokens) = " " THEN Strip(Tail(tokens))
    ELSE IF tokens[Len(tokens)] = " " THEN Strip(SubSeq(tokens, 1, Len(tokens) - 1))
    ELSE tokens

\* ipaddress.ip_address(ip) does not raise
IsAddress(tokens) == Len(tokens) = 1 /\ tokens[1] \in ValidAddresses

client_ip(req) ==
    LET fwd == Strip(FirstField(req.xff))
        ip  == IF fwd # <<>> THEN fwd
               ELSE IF req.host # <<>> THEN req.host
               ELSE <<"0.0.0.0">>
    IN  IF IsAddress(ip) THEN ip[1] ELSE "0.0.0.0"

\* ------------------------------------------------------------ hit
\* bucket[key] = value
Put(bucket, key, value) ==
    [k \in DOMAIN bucket \cup {key} |-> IF k = key THEN value ELSE bucket[k]]

\* hit with the limit tested before the count is raised
hit_counts_late(bucket, key, limit, ttl, t) ==
    IF key \notin DOMAIN bucket \/ t > bucket[key].exp
    THEN [bucket   |-> Put(bucket, key, [count |-> 1, exp |-> t + ttl]),
          exceeded |-> FALSE]
    ELSE [bucket   |-> Put(bucket, key, [count |-> bucket[key].count + 1,
                                         exp |-> bucket[key].exp]),
          exceeded |-> bucket[key].count > limit]

\* hit with the expiry compared to the start of the window
hit_window_start(bucket, key, limit, ttl, t) ==
    IF key \notin DOMAIN bucket \/ t > bucket[key].exp - ttl
    THEN [bucket   |-> Put(bucket, key, [count |-> 1, exp |-> t + ttl]),
          exceeded |-> FALSE]
    ELSE LET count == bucket[key].count + 1
         IN  [bucket   |-> Put(bucket, key, [count |-> count, exp |-> bucket[key].exp]),
              exceeded |-> count > limit]

\* hit with the write of a stale read: the entry is written back with the
\* count another caller has raised in between, so one increment is lost
hit_lost_update(bucket, key, limit, ttl, t) ==
    IF key \notin DOMAIN bucket \/ t > bucket[key].exp
    THEN [bucket   |-> Put(bucket, key, [count |-> 1, exp |-> t + ttl]),
          exceeded |-> FALSE]
    ELSE LET count == IF bucket[key].count >= 2 THEN bucket[key].count
                      ELSE bucket[key].count + 1
         IN  [bucket   |-> Put(bucket, key, [count |-> count, exp |-> bucket[key].exp]),
              exceeded |-> count > limit]

\* hit(bucket, key, limit, ttl) at time.time() = t: the bucket it leaves and
\* the value it returns
hit(bucket, key, limit, ttl, t) ==
    IF key \notin DOMAIN bucket \/ t > bucket[key].exp
    THEN [bucket   |-> Put(bucket, key, [count |-> 1, exp |-> t + ttl]),
          exceeded |-> FALSE]
    ELSE LET count == bucket[key].count + 1
         IN  [bucket   |-> Put(bucket, key, [count |-> count, exp |-> bucket[key].exp]),
              exceeded |-> count > limit]

\* ------------------------------------------------------------ configuration
GROQ_MODEL == "llama-3.1-8b-instant"
HF_MODEL == "mistralai/Mistral-7B-Instruct"

VARIABLES
    GROQ_API_KEY,    \* "" when the secret is not set
    HF_API_TOKEN,    \* "" when the secret is not set
    WAKE_WORD_MODE,  \* require | prefer | off
    PER_MINUTE,
    DAILY_CAP,
    rate_min,        \* key -> [count, exp]
    rate_day,        \* key -> [count, exp]
    now,             \* the wall clock, in seconds
    ticks,           \* steps the clock has made
    arrivals,        \* requests accepted so far
    reqs,            \* slot -> the coroutine of the request it handles
    hits             \* the calls of hit() made, in order

vars == <<GROQ_API_KEY, HF_API_TOKEN, WAKE_WORD_MODE, PER_MINUTE, DAILY_CAP,
          rate_min, rate_day, now, ticks, arrivals, reqs, hits>>

config == <<GROQ_API_KEY, HF_API_TOKEN, WAKE_WORD_MODE, PER_MINUTE, DAILY_CAP>>

\* ------------------------------------------------------------ messages
\* time_system_message() at time t; _now_strings() is rendered as the digits
\* of t
time_system_message(t) ==
    LET tail == IF WAKE_WORD_MODE = "prefer"
                THEN <<" If the user's message doesn't include your name,",
                       " politely encourage them to say '">>
                     \o ASSISTANT_NAME \o <<"' next time.">>
                ELSE <<>>
    IN  <<"You are ">> \o ASSISTANT_NAME
        \o <<", a concise, friendly assistant.", " Current datetime (local): ",
             ToString(t), ".", " Use this as the source of truth for 'now'",
             " and the current date/time.">>
        \o tail

\* "\n".join(parts)
RECURSIVE Join(_)
Join(parts) ==
    IF parts = <<>> THEN <<>>
    ELSE IF Len(parts) = 1 THEN parts[1]
    ELSE parts[1] \o <<"\n">> \o Join(Tail(parts))

\* the line to_instruct_prompt makes of one message
PromptLine(m) ==
    LET role    == Get(m, "role", "user")
        content == Get(m, "content", <<>>)
    IN  IF role = "user" THEN <<"User: ">> \o content
        ELSE IF role = "assistant" THEN <<"Assistant: ">> \o content
        ELSE content

\* to_instruct_prompt(messages) at time t
to_instruct_prompt(messages, t) ==
    Join(<<(<<"System: ">> \o time_system_message(t))>>
         \o [i \in 1..Len(messages) |-> PromptLine(messages[i])]
         \o << <<"Assistant:">> >>)

\* the scan without reversed(): the first user message
user_first(messages) ==
    LET users == {i \in 1..Len(messages) : Get(messages[i], "role", None) = "user"}
    IN  IF users = {} THEN <<>>
        ELSE Get(messages[CHOOSE i \in users : \A j \in users : i <= j], "content", <<>>)

\* next((m.get("content", "") for m in reversed(messages)
\*       if m.get("role") == "user"), "")
user_last(messages) ==
    LET users == {i \in 1..Len(messages) : Get(messages[i], "role", None) = "user"}
    IN  IF users = {} THEN <<>>
        ELSE Get(messages[CHOOSE i \in users : \A j \in users : j <= i], "content", <<>>)

\* ------------------------------------------------------------ errors
NoExc == [type |-> "", status_code |-> 0, detail |-> ""]

\* HTTPException(status_code, detail)
HTTPException(status_code, detail) ==
    [type |-> "HTTPException", status_code |-> status_code, detail |-> detail]

\* any other exception
Exception(type) == [type |-> type, status_code |-> 0, detail |-> ""]

NoResp == [status |-> 0, body |-> <<>>]

\* JSONResponse(content)
JSONResponse(content) == [status |-> 200, body |-> content]

\* what the framework answers when the route raises exc: an HTTPException
\* becomes its status and {"detail": ...}; anything else is a plain 500
Respond(exc) ==
    IF exc.type = "HTTPException"
    THEN [status |-> exc.status_code, body |-> [detail |-> exc.detail]]
    ELSE [status |-> 500, body |-> [text |-> "Internal Server Error"]]

\* x or ""
OrEmpty(x) == IF x = None THEN "" ELSE x

\* ------------------------------------------------------------ the requests sent
Hello == <<"h", "e", "l", "l", "o">>
HelloMarion == <<"h", "e", "l", "l", "o", " ", "M", "a", "r", "i", "o", "n">>
HeyMarion == <<"h", "e", "y", " ", "m", "a", "r", "i", "o", "n", "!">>
Marionette == <<"M", "a", "r", "i", "o", "n", "e", "t", "t", "e">>

Msg(role, content) == [role |-> role, content |-> content]

\* request metadata: the x-forwarded-for header and req.client.host, as tokens
FromA == [xff |-> <<>>, host |-> <<"10.0.0.1">>]
FromB == [xff |-> <<" ", "10.0.0.2", ",", " ", "10.0.0.9">>, host |-> <<"10.0.0.1">>]
FromUnknown == [xff |-> <<"unknown">>, host |-> <<"10.0.0.1">>]
FromNobody == [xff |-> <<>>, host |-> <<>>]

\* a body that is a JSON object
Body(fields) == [t |-> "dict", v |-> fields]
Chat(messages) == Body([messages |-> JList(messages)])
ChatAt(messages, temperature) ==
    Body([messages |-> JList(messages), temperature |-> temperature])

\* the requests the environment sends: what await req.json() yields (t =
\* "invalid" when it raises) and the metadata of the request
Inputs == <<
    [meta |-> FromA, body |-> [t |-> "invalid", v |-> <<>>]],
    [meta |-> FromA, body |-> JList(<<>>)],
    [meta |-> FromA, body |-> Body([temperature |-> JNum(7)])],
    [meta |-> FromA, body |-> Body([messages |-> JWord(Hello)])],
    [meta |-> FromA, body |-> Chat(<<>>)],
    [meta |-> FromA, body |-> Chat(<<Msg("user", Hello)>>)],
    [meta |-> FromA, body |-> Chat(<<Msg("user", HelloMarion)>>)],
    [meta |-> FromB, body |-> Chat(<<Msg("user", HelloMarion)>>)],
    [meta |-> FromA, body |-> Chat(<<Msg("user", HelloMarion), Msg("assistant", Hello),
                                     Msg("user", Hello)>>)],
    [meta |-> FromA, body |-> Chat(<<Msg("assistant", HelloMarion)>>)],
    [meta |-> FromNobody, body |-> Chat(<<[content |-> HelloMarion]>>)],
    [meta |-> FromB, body |-> ChatAt(<<Msg("system", Hello), Msg("user", HeyMarion)>>,
                                     JNum(-50))],
    [meta |-> FromA, body |-> ChatAt(<<Msg("user", Marionette)>>, JNum(99))],
    [meta |-> FromA, body |-> Body([messages |-> JList(<<Msg("user", HelloMarion)>>),
                                    temperature |-> JNum(99),
                                    max_tokens |-> JNum(4000)])],
    [meta |-> FromA, body |-> ChatAt(<<Msg("user", HelloMarion)>>, JWord(Hello))],
    [meta |-> FromUnknown, body |-> Chat([i \in 1..41 |-> Msg("user", HelloMarion)])]
>>

\* ------------------------------------------------------------ the providers
\* what client.post() yields: sent = FALSE when it raises (no connection, a
\* timeout); json is "none" when the body does not decode, else the shape of
\* the decoded value; text is r.text, or the reply the decoded value holds
Upstream(status, json, text) ==
    [sent |-> TRUE, status |-> status, json |-> json, text |-> text]
NotSent == [sent |-> FALSE, status |-> 0, json |-> "none", text |-> ""]

GroqUpstreams == <<
    Upstream(200, "choices", "Hi, I am Marion."),
    Upstream(200, "choices", None),
    Upstream(500, "error", "groq: internal error"),
    Upstream(200, "other", ""),
    Upstream(200, "none", ""),
    NotSent
>>

HfUpstreams == <<
    Upstream(200, "list", "Hello from HF."),
    Upstream(200, "dict", "Hello from HF."),
    Upstream(200, "other", ""),
    Upstream(503, "error", "hf: model loading"),
    Upstream(200, "none", ""),
    NotSent
>>

Returned(text) == [ok |-> TRUE, text |-> text, exc |-> NoExc]
Raised(exc) == [ok |-> FALSE, text |-> "", exc |-> exc]

\* groq_generate_chat from the answer r of client.post() on
groq_generate_chat(r) ==
    IF ~r.sent THEN Raised(Exception("httpx.TransportError"))
    ELSE IF r.status >= 400 THEN Raised(HTTPException(r.status, r.text))
    ELSE IF r.json = "none" THEN Raised(Exception("JSONDecodeError"))
    ELSE IF r.json = "choices" THEN Returned(r.text)
    ELSE Raised(HTTPException(500, "Unexpected Groq response shape"))

\* hf_generate from the answer r of client.post() on
hf_generate(r) ==
    IF ~r.sent THEN Raised(Exception("httpx.TransportError"))
    ELSE IF r.status >= 400 THEN Raised(HTTPException(r.status, r.text))
    ELSE IF r.json = "none" THEN Raised(Exception("JSONDecodeError"))
    ELSE IF r.json = "list" THEN Returned(r.text)
    ELSE IF r.json = "dict" THEN Returned(r.text)
    ELSE Returned("")

\* ------------------------------------------------------------ a request
\* The coroutine of one request: the path it was posted to, where it is
\* suspended (pc), the input it read (inp, an index of Inputs), its locals (messages, temperature,
\* max_tokens, the caught exception e), the response it gave (resp), and a
\* record of what it did: the stages it entered, the rate-limit checks it
\* made and the provider calls it sent, in order.
Idle == [path |-> "", pc |-> "idle", inp |-> 0, messages |-> <<>>, temperature |-> 0,
         max_tokens |-> 0, e |-> NoExc, resp |-> NoResp,
         stages |-> <<>>, checks |-> <<>>, calls |-> <<>>]

Stage(c, name) == [c EXCEPT !.stages = Append(@, name)]

\* the request ends with this response
Finish(c, resp) == [c EXCEPT !.pc = "done", !.resp = resp]

\* the request ends by raising exc
Raise(c, exc) == Finish(c, Respond(exc))

\* the state a step of a request leaves: the coroutine and the two buckets
Step(c, rmin, rday) == [co |-> c, rate_min |-> rmin, rate_day |-> rday]

\* hf_generate(prompt, temperature, max_tokens) up to its await
hf_call(c, prompt) ==
    IF HF_API_TOKEN = ""
    THEN Raise(c, HTTPException(500, "Server misconfigured: missing HF_API_TOKEN"))
    ELSE [c EXCEPT !.pc = "hf",
                   !.calls = Append(@, [provider |-> "huggingface",
                                        model |-> HF_MODEL,
                                        inputs |-> prompt,
                                        temperature |-> c.temperature,
                                        max_new_tokens |-> c.max_tokens,
                                        return_full_text |-> FALSE,
                                        answer |-> NotSent])]

\* handle_chat when groq_generate_chat raised exc: the except clause
groq_failed(c, exc, t) ==
    IF exc.type # "HTTPException" THEN Raise(c, exc)
    ELSE IF HF_API_TOKEN # ""
    THEN hf_call([c EXCEPT !.e = exc], to_instruct_prompt(c.messages, t))
    ELSE Raise(c, exc)

\* groq_generate_chat(messages, temperature, max_tokens) up to its await
groq_call(c, t) ==
    IF GROQ_API_KEY = ""
    THEN groq_failed(c, HTTPException(500, "Server misconfigured: missing GROQ_API_KEY"), t)
    ELSE [c EXCEPT !.pc = "groq",
                   !.calls = Append(@, [provider |-> "groq",
                                        model |-> GROQ_MODEL,
                                        messages |-> c.messages,
                                        temperature |-> c.temperature,
                                        max_tokens |-> c.max_tokens,
                                        stream |-> FALSE,
                                        answer |-> NotSent])]

\* a failed Groq call is sent once more before the except clause runs
groq_returned_retry(c, got, t) ==
    IF got.ok
    THEN Finish(c, JSONResponse([reply |-> OrEmpty(got.text),
                                 usage |-> <<>>,
                                 model |-> GROQ_MODEL,
                                 provider |-> "groq"]))
    ELSE IF Len(c.calls) < 2 THEN groq_call(c, t)
    ELSE groq_failed(c, got.exc, t)

\* handle_chat after await groq_generate_chat(...): the reply, or the except
\* clause
groq_returned(c, got, t) ==
    IF got.ok
    THEN Finish(c, JSONResponse([reply |-> OrEmpty(got.text),
                                 usage |-> <<>>,
                                 model |-> GROQ_MODEL,
                                 provider |-> "groq"]))
    ELSE groq_failed(c, got.exc, t)

\* after a fallback that failed too, the exception caught from Groq is raised
hf_returned_first_error(c, got) ==
    IF got.ok
    THEN Finish(c, JSONResponse([reply |-> OrEmpty(got.text),
                                 usage |-> <<>>,
                                 model |-> HF_MODEL,
                                 provider |-> "huggingface"]))
    ELSE IF c.e # NoExc THEN Raise(c, c.e)
    ELSE Raise(c, got.exc)

\* an exception of hf_generate is swallowed into an empty reply
hf_returned_swallowed(c, got) ==
    Finish(c, JSONResponse([reply |-> IF got.ok THEN OrEmpty(got.text) ELSE "",
                            usage |-> <<>>,
                            model |-> HF_MODEL,
                            provider |-> "huggingface"]))

\* handle_chat after await hf_generate(...): the reply, or the exception of
\* hf_generate, which nothing catches
hf_returned(c, got) ==
    IF got.ok
    THEN Finish(c, JSONResponse([reply |-> OrEmpty(got.text),
                                 usage |-> <<>>,
                                 model |-> HF_MODEL,
                                 provider |-> "huggingface"]))
    ELSE Raise(c, got.exc)

\* the provider order without the test of the credentials
orchestrate_unchecked(c, t) ==
    [c EXCEPT !.pc = "groq",
              !.calls = Append(@, [provider |-> "groq",
                                   model |-> GROQ_MODEL,
                                   messages |-> c.messages,
                                   temperature |-> c.temperature,
                                   max_tokens |-> c.max_tokens,
                                   stream |-> FALSE,
                                   answer |-> NotSent])]

\* handle_chat, "Provider order: Groq -> HF", up to the first await
orchestrate(c, t) ==
    IF GROQ_API_KEY # "" THEN groq_call(c, t)
    ELSE IF HF_API_TOKEN # "" THEN hf_call(c, to_instruct_prompt(c.messages, t))
    ELSE Raise(c, HTTPException(500,
             "No provider configured. Set GROQ_API_KEY or HF_API_TOKEN."))

\* handle_chat, "Inject time + persona system message"
inject(c, t) ==
    LET sys == [role |-> "system", content |-> time_system_message(t)]
    IN  orchestrate(Stage([c EXCEPT !.messages = <<sys>> \o c.messages], "orchestrate"), t)

\* handle_chat, "Wake-word gating"
gate(c, t) ==
    IF WAKE_WORD_MODE = "require" /\ ~mentions_name(user_last(c.messages))
    THEN Finish(c, JSONResponse(
             [reply |-> <<"(...waiting) Say '">> \o ASSISTANT_NAME \o <<"' to talk to me.">>,
              provider |-> "guard",
              model |-> None]))
    ELSE inject(Stage(c, "inject"), t)

\* float(x), int(x): the number, or the exception raised
Number(x) ==
    IF x.t = "num" THEN [ok |-> TRUE, n |-> x.v[1], exc |-> NoExc]
    ELSE IF x.t = "word" THEN [ok |-> FALSE, n |-> 0, exc |-> Exception("ValueError")]
    ELSE [ok |-> FALSE, n |-> 0, exc |-> Exception("TypeError")]

\* handle_chat, "Params"
params(c, body, t) ==
    LET temperature == Number(Get(body, "temperature", JNum(7)))
        max_tokens  == Number(Get(body, "max_tokens", JNum(256)))
    IN  IF ~temperature.ok THEN Raise(c, temperature.exc)
        ELSE IF ~max_tokens.ok THEN Raise(c, max_tokens.exc)
        ELSE gate(Stage([c EXCEPT !.temperature = temperature.n,
                                  !.max_tokens = max_tokens.n], "gate"), t)

\* the rate limit with the day window tested first
limit_day_first(c, req, body, t) ==
    LET ip      == client_ip(req)
        day     == hit(rate_day, "day:" \o ip, DAILY_CAP, 24 * 60 * 60, t)
        minute  == hit(rate_min, "min:" \o ip, PER_MINUTE, 60, t)
        checked == [c EXCEPT !.checks = Append(@, [bucket |-> "day",
                                                   exceeded |-> day.exceeded])]
        twice   == [checked EXCEPT !.checks = Append(@, [bucket |-> "min",
                                                         exceeded |-> minute.exceeded])]
    IN  IF day.exceeded
        THEN Step(Raise(checked, HTTPException(429, "Daily cap reached.")),
                  rate_min, day.bucket)
        ELSE IF minute.exceeded
        THEN Step(Raise(twice, HTTPException(429, "Per-minute limit hit.")),
                  minute.bucket, day.bucket)
        ELSE Step(params(Stage(twice, "params"), body, t), minute.bucket, day.bucket)

\* the rate limit reported but not enforced: the request goes on after a
\* window was exceeded
limit_not_enforced(c, req, body, t) ==
    LET ip      == client_ip(req)
        minute  == hit(rate_min, "min:" \o ip, PER_MINUTE, 60, t)
        day     == hit(rate_day, "day:" \o ip, DAILY_CAP, 24 * 60 * 60, t)
        checked == [c EXCEPT !.checks = Append(@, [bucket |-> "min",
                                                   exceeded |-> minute.exceeded])]
        twice   == [checked EXCEPT !.checks = Append(@, [bucket |-> "day",
                                                         exceeded |-> day.exceeded])]
    IN  Step(params(Stage(twice, "params"), body, t), minute.bucket, day.bucket)

\* the rate limit with both windows counted before either is tested
limit_both_counted(c, req, body, t) ==
    LET ip      == client_ip(req)
        minute  == hit(rate_min, "min:" \o ip, PER_MINUTE, 60, t)
        day     == hit(rate_day, "day:" \o ip, DAILY_CAP, 24 * 60 * 60, t)
        checked == [c EXCEPT !.checks = Append(@, [bucket |-> "min",
                                                   exceeded |-> minute.exceeded])]
        twice   == [checked EXCEPT !.checks = Append(@, [bucket |-> "day",
                                                         exceeded |-> day.exceeded])]
    IN  IF minute.exceeded
        THEN Step(Raise(checked, HTTPException(429, "Per-minute limit hit.")),
                  minute.bucket, day.bucket)
        ELSE IF day.exceeded
        THEN Step(Raise(twice, HTTPException(429, "Daily cap reached.")),
                  minute.bucket, day.bucket)
        ELSE Step(params(Stage(twice, "params"), body, t), minute.bucket, day.bucket)

\* handle_chat, "Rate limit"
limit(c, req, body, t) ==
    LET ip      == client_ip(req)
        minute  == hit(rate_min, "min:" \o ip, PER_MINUTE, 60, t)
        day     == hit(rate_day, "day:" \o ip, DAILY_CAP, 24 * 60 * 60, t)
        checked == [c EXCEPT !.checks = Append(@, [bucket |-> "min",
                                                   exceeded |-> minute.exceeded])]
        twice   == [checked EXCEPT !.checks = Append(@, [bucket |-> "day",
                                                         exceeded |-> day.exceeded])]
    IN  IF minute.exceeded
        THEN Step(Raise(checked, HTTPException(429, "Per-minute limit hit.")),
                  minute.bucket, rate_day)
        ELSE IF day.exceeded
        THEN Step(Raise(twice, HTTPException(429, "Daily cap reached.")),
                  minute.bucket, day.bucket)
        ELSE Step(params(Stage(twice, "params"), body, t), minute.bucket, day.bucket)

\* handle_chat with the wake-word gate before the rate limit
handle_chat_gate_first(c, i, t) ==
    LET req  == Inputs[i].meta
        body == Inputs[i].body
        read == Stage([c EXCEPT !.inp = i], "parse")
    IN  IF body.t = "invalid"
        THEN Step(Raise(read, HTTPException(400, "Invalid JSON")), rate_min, rate_day)
        ELSE IF body.t # "dict"
        THEN Step(Raise(read, Exception("AttributeError")), rate_min, rate_day)
        ELSE LET messages == Get(body.v, "messages", JNull)
             IN  IF messages.t # "list" \/ messages.v = <<>>
                 THEN Step(Raise(Stage(read, "validate"),
                                 HTTPException(400, "messages[] is required")),
                           rate_min, rate_day)
                 ELSE IF WAKE_WORD_MODE = "require" /\ ~mentions_name(user_last(messages.v))
                 THEN Step(gate(Stage(Stage([read EXCEPT !.messages = messages.v],
                                            "validate"), "gate"), t),
                           rate_min, rate_day)
                 ELSE limit(Stage(Stage([read EXCEPT !.messages = messages.v],
                                        "validate"), "limit"),
                            req, body.v, t)

\* handle_chat from the answer of await req.json() to its first provider
\* call, its return or its exception, at time t
handle_chat(c, i, t) ==
    LET req  == Inputs[i].meta
        body == Inputs[i].body
        read == Stage([c EXCEPT !.inp = i], "parse")
    IN  IF body.t = "invalid"
        THEN Step(Raise(read, HTTPException(400, "Invalid JSON")), rate_min, rate_day)
        ELSE IF body.t # "dict"
        THEN Step(Raise(read, Exception("AttributeError")), rate_min, rate_day)
        ELSE LET messages == Get(body.v, "messages", JNull)
             IN  IF messages.t # "list" \/ messages.v = <<>>
                 THEN Step(Raise(Stage(read, "validate"),
                                 HTTPException(400, "messages[] is required")),
                           rate_min, rate_day)
                 ELSE limit(Stage(Stage([read EXCEPT !.messages = messages.v],
                                        "validate"), "limit"),
                            req, body.v, t)

\* ------------------------------------------------------------ actions
\* the step of the clock: within the minute, to the end of a minute window,
\* to the end of a day window
Deltas == {1, 60, 24 * 60 * 60}

Modes == {"require", "prefer", "off"}

\* the addresses hit() is tried with on its own
Clients == {"10.0.0.1", "10.0.0.2"}

\* the process after start-up, with the environment it was started in
Started ==
    /\ GROQ_API_KEY \in {"", "gsk-secret"}
    /\ HF_API_TOKEN \in {"", "hf-secret"}
    /\ WAKE_WORD_MODE \in Modes
    /\ PER_MINUTE \in 1..MaxLimit
    /\ DAILY_CAP \in 1..MaxLimit
    /\ rate_min = <<>>
    /\ rate_day = <<>>
    /\ now = 0
    /\ ticks = 0
    /\ arrivals = 0
    /\ hits = <<>>

\* requests are handled one after the other
Init ==
    /\ Started
    /\ reqs = [s \in {"r1"} |-> Idle]

\* no request is handled: hit() is called on its own
InitHit ==
    /\ Started
    /\ GROQ_API_KEY # "" /\ HF_API_TOKEN # "" /\ WAKE_WORD_MODE = "require"
    /\ reqs = <<>>

\* time passes
Tick ==
    /\ ticks < MaxTicks
    /\ \E d \in Deltas : now' = now + d
    /\ ticks' = ticks + 1
    /\ UNCHANGED <<config, rate_min, rate_day, arrivals, reqs, hits>>

\* hit(rate_min, f"min:{ip}", PER_MINUTE, 60), as handle_chat calls it, while
\* fewer than n calls were made
Hit_minute_within(ip, n) ==
    /\ Len(hits) < n
    /\ LET h == hit(rate_min, "min:" \o ip, PER_MINUTE, 60, now)
       IN  /\ rate_min' = h.bucket
           /\ hits' = Append(hits, [bucket |-> "min", key |-> "min:" \o ip,
                                    limit |-> PER_MINUTE, ttl |-> 60,
                                    t |-> now, exceeded |-> h.exceeded])
    /\ UNCHANGED <<config, rate_day, now, ticks, arrivals, reqs>>

Hit_minute(ip) == Hit_minute_within(ip, MaxHits)

\* hit(rate_day, f"day:{ip}", DAILY_CAP, 24 * 60 * 60), as handle_chat calls it
Hit_day(ip) ==
    /\ Len(hits) < MaxHits
    /\ LET h == hit(rate_day, "day:" \o ip, DAILY_CAP, 24 * 60 * 60, now)
       IN  /\ rate_day' = h.bucket
           /\ hits' = Append(hits, [bucket |-> "day", key |-> "day:" \o ip,
                                    limit |-> DAILY_CAP, ttl |-> 24 * 60 * 60,
                                    t |-> now, exceeded |-> h.exceeded])
    /\ UNCHANGED <<config, rate_min, now, ticks, arrivals, reqs>>

\* POST /api/chat: chat(req) calls handle_chat(req), which awaits req.json()
chat(s) ==
    /\ reqs[s].pc = "idle"
    /\ arrivals < MaxRequests
    /\ arrivals' = arrivals + 1
    /\ reqs' = [reqs EXCEPT ![s].pc = "body", ![s].path = "/api/chat"]
    /\ UNCHANGED <<config, rate_min, rate_day, now, ticks, hits>>

\* the paths posted to that no route is declared for
Unrouted == {"/api/chat/stream"}

\* POST to a path without a route: the framework answers 404 and no handler
\* runs
Post_unrouted(s) ==
    /\ reqs[s].pc = "idle"
    /\ arrivals < MaxRequests
    /\ arrivals' = arrivals + 1
    /\ \E path \in Unrouted :
          reqs' = [reqs EXCEPT ![s] = Raise([Idle EXCEPT !.path = path],
                                            HTTPException(404, "Not Found"))]
    /\ UNCHANGED <<config, rate_min, rate_day, now, ticks, hits>>

\* the calls of hit() a request made at time t, as Hit_minute and Hit_day
\* record them
Logged(c, t) ==
    LET ip == client_ip(Inputs[c.inp].meta)
    IN  [k \in 1..Len(c.checks) |->
            IF c.checks[k].bucket = "min"
            THEN [bucket |-> "min", key |-> "min:" \o ip, limit |-> PER_MINUTE,
                  ttl |-> 60, t |-> t, exceeded |-> c.checks[k].exceeded]
            ELSE [bucket |-> "day", key |-> "day:" \o ip, limit |-> DAILY_CAP,
                  ttl |-> 24 * 60 * 60, t |-> t, exceeded |-> c.checks[k].exceeded]]

\* req.json() answers with one of these inputs: handle_chat runs to its first
\* provider call or its end
Body_read_from(s, inputs) ==
    /\ reqs[s].pc = "body"
    /\ \E i \in inputs :
          LET step == handle_chat(reqs[s], i, now)
          IN  /\ reqs' = [reqs EXCEPT ![s] = step.co]
              /\ rate_min' = step.rate_min
              /\ rate_day' = step.rate_day
              /\ hits' = hits \o Logged(step.co, now)
    /\ UNCHANGED <<config, now, ticks, arrivals>>

\* req.json() answers
Body_read(s) == Body_read_from(s, 1..Len(Inputs))

\* the last call sent has this answer
Answered(c, r) == [c EXCEPT !.calls[Len(c.calls)].answer = r]

\* client.post() of groq_generate_chat answers: handle_chat returns Groq's
\* reply, falls back to Hugging Face or raises
Groq_answers(s) ==
    /\ reqs[s].pc = "groq"
    /\ \E k \in 1..Len(GroqUpstreams) :
          LET c   == Answered(reqs[s], GroqUpstreams[k])
              got == groq_generate_chat(GroqUpstreams[k])
          IN  reqs' = [reqs EXCEPT ![s] = groq_returned(c, got, now)]
    /\ UNCHANGED <<config, rate_min, rate_day, now, ticks, arrivals, hits>>

\* client.post() of hf_generate answers: handle_chat returns the reply or raises
Hf_answers(s) ==
    /\ reqs[s].pc = "hf"
    /\ \E k \in 1..Len(HfUpstreams) :
          LET c   == Answered(reqs[s], HfUpstreams[k])
              got == hf_generate(HfUpstreams[k])
          IN  reqs' = [reqs EXCEPT ![s] = hf_returned(c, got)]
    /\ UNCHANGED <<config, rate_min, rate_day, now, ticks, arrivals, hits>>

\* the response is sent and the coroutine is gone
Respond_sent(s) ==
    /\ reqs[s].pc = "done"
    /\ reqs' = [reqs EXCEPT ![s] = Idle]
    /\ UNCHANGED <<config, rate_min, rate_day, now, ticks, arrivals, hits>>

\* the requests of one process, all within the same second
Next ==
    \/ \E s \in DOMAIN reqs : chat(s)
    \/ \E s \in DOMAIN reqs : Post_unrouted(s)
    \/ \E s \in DOMAIN reqs : Body_read(s)
    \/ \E s \in DOMAIN reqs : Groq_answers(s)
    \/ \E s \in DOMAIN reqs : Hf_answers(s)
    \/ \E s \in DOMAIN reqs : Respond_sent(s)

Spec == Init /\ [][Next]_vars

\* calls of hit() while time passes
NextHit ==
    \/ Tick
    \/ \E ip \in Clients : Hit_minute(ip)
    \/ \E ip \in Clients : Hit_day(ip)

SpecHit == InitHit /\ [][NextHit]_vars

\* one client calls hit() on the minute window while time passes
InitBoundary ==
    /\ Started
    /\ GROQ_API_KEY # "" /\ HF_API_TOKEN # "" /\ WAKE_WORD_MODE = "require"
    /\ DAILY_CAP = MaxLimit
    /\ reqs = <<>>

NextBoundary ==
    \/ Tick
    \/ Hit_minute_within("10.0.0.1", MaxBurst)

SpecBoundary == InitBoundary /\ [][NextBoundary]_vars

\* Two requests are handled at once: each coroutine runs from one await to the
\* next, and the event loop interleaves them at the awaits.
InitConcurrent ==
    /\ Started
    /\ GROQ_API_KEY # "" /\ HF_API_TOKEN # "" /\ WAKE_WORD_MODE = "require"
    /\ reqs = [s \in {"r1", "r2"} |-> Idle]

\* the requests sent at once: an empty message list, a message without the
\* name and one with it from 10.0.0.1, one with the name from 10.0.0.2
ConcurrentInputs == {5, 6, 7, 8}

NextConcurrent ==
    \/ \E s \in DOMAIN reqs : chat(s)
    \/ \E s \in DOMAIN reqs : Body_read_from(s, ConcurrentInputs)
    \/ \E s \in DOMAIN reqs : Groq_answers(s)
    \/ \E s \in DOMAIN reqs : Hf_answers(s)
    \/ \E s \in DOMAIN reqs : Respond_sent(s)

SpecConcurrent == InitConcurrent /\ [][NextConcurrent]_vars

\* ------------------------------------------------------------ the limiter's windows
\* the calls of hit() made with this key, in order
HitsOf(key) == SelectSeq(hits, LAMBDA h : h.key = key)

KeysHit == {hits[i].key : i \in 1..Len(hits)}

\* For the calls hs made with one key: the place of each call in its window.
\* A window is opened by the first call and by every call made after the
\* expiry (start + ttl) of the window before it; n counts the calls of the
\* window, the opening one included.
RECURSIVE Windows(_)
Windows(hs) ==
    IF hs = <<>> THEN <<>>
    ELSE LET before == Windows(SubSeq(hs, 1, Len(hs) - 1))
             h      == hs[Len(hs)]
         IN  IF before = <<>> \/ h.t > before[Len(before)].start + h.ttl
             THEN Append(before, [n |-> 1, start |-> h.t])
             ELSE Append(before, [n |-> before[Len(before)].n + 1,
                                  start |-> before[Len(before)].start])

\* the entry of a key in the bucket it belongs to
EntryOf(h) == IF h.bucket = "min" THEN rate_min[h.key] ELSE rate_day[h.key]

\* C1: for every key and limit, from an absent or expired entry on, hit()
\* reports not-exceeded for the 1st to the limit-th call inside the window
\* and exceeded for the (limit+1)-th; the first call after the expiry of the
\* entry replaces it with count = 1 and expiry = now + window and reports
\* not-exceeded.
C1_FixedWindow ==
    \A key \in KeysHit :
        LET hs == HitsOf(key)
            w  == Windows(hs)
            h  == hs[Len(hs)]
        IN  /\ \A i \in 1..Len(hs) :
                  /\ w[i].n <= hs[i].limit => ~hs[i].exceeded
                  /\ w[i].n = hs[i].limit + 1 => hs[i].exceeded
            /\ w[Len(hs)].n = 1 =>
                  EntryOf(h) = [count |-> 1, exp |-> h.t + h.ttl]

\* a key whose window was used up (the limit-th call accepted, the next one
\* refused) and then opened again by a call after its expiry
C1_Witness ==
    \E key \in KeysHit :
        LET hs == HitsOf(key)
            w  == Windows(hs)
        IN  /\ Len(hs) >= 3
            /\ \E i \in 2..(Len(hs) - 1) :
                  /\ w[i - 1].n = hs[i].limit /\ ~hs[i - 1].exceeded
                  /\ w[i].n = hs[i].limit + 1 /\ hs[i].exceeded
            /\ w[Len(hs)].n = 1 /\ ~hs[Len(hs)].exceeded
            /\ hs[Len(hs)].t > hs[Len(hs) - 1].t
            /\ EntryOf(hs[Len(hs)]).count = 1

\* ------------------------------------------------------------ a request, seen from outside
\* the request has entered this stage of handle_chat
Reached(c, stage) == \E i \in 1..Len(c.stages) : c.stages[i] = stage

\* the message list the request carried (of a request that passed validation)
Conversation(c) == Inputs[c.inp].body.v.messages.v

\* the request read a body that is an object holding a list of messages
HasConversation(c) ==
    /\ c.inp # 0
    /\ Inputs[c.inp].body.t = "dict"
    /\ "messages" \in DOMAIN Inputs[c.inp].body.v
    /\ Inputs[c.inp].body.v.messages.t = "list"

\* the content of the last message of role user, read from the end; the empty
\* text when there is none
RECURSIVE LastUserText(_)
LastUserText(conversation) ==
    IF conversation = <<>> THEN <<>>
    ELSE LET m == conversation[Len(conversation)]
         IN  IF "role" \in DOMAIN m /\ m.role = "user"
             THEN (IF "content" \in DOMAIN m THEN m.content ELSE <<>>)
             ELSE LastUserText(SubSeq(conversation, 1, Len(conversation) - 1))

\* the response is this error
IsError(c, status, detail) ==
    /\ c.pc = "done"
    /\ c.resp.status = status
    /\ DOMAIN c.resp.body = {"detail"}
    /\ c.resp.body.detail = detail

\* C2: a request that reaches the rate limiter has the short (60 s) window
\* checked before the long (86400 s) one, is rejected with 429 whenever either
\* reports exceeded, and the detail names the window that tripped.
C2_ShortThenLong ==
    \A s \in DOMAIN reqs :
        LET c == reqs[s]
        IN  Reached(c, "limit") =>
              /\ Len(c.checks) \in {1, 2}
              /\ c.checks[1].bucket = "min"
              /\ c.checks[1].exceeded => IsError(c, 429, "Per-minute limit hit.")
              /\ Len(c.checks) = 1 => c.checks[1].exceeded
              /\ Len(c.checks) = 2 =>
                    /\ c.checks[2].bucket = "day"
                    /\ c.checks[2].exceeded => IsError(c, 429, "Daily cap reached.")
                    /\ ~c.checks[2].exceeded => ~(c.pc = "done" /\ c.resp.status = 429)

\* a request the short window let pass and the long window rejected
C2_Witness ==
    \E s \in DOMAIN reqs :
        /\ Len(reqs[s].checks) = 2
        /\ ~reqs[s].checks[1].exceeded
        /\ reqs[s].checks[2].exceeded
        /\ IsError(reqs[s], 429, "Daily cap reached.")

\* the reply of the wake-word gate
IsWaitingReply(c) ==
    /\ c.pc = "done"
    /\ c.resp.status = 200
    /\ c.resp.body.provider = "guard"
    /\ c.resp.body.model = None
    /\ c.resp.body.reply
         = <<"(...waiting) Say '">> \o ASSISTANT_NAME \o <<"' to talk to me.">>

\* C3: in mode require, a request whose most recent user message (read from
\* the end; the empty text when there is none) does not mention the name gets
\* the waiting reply (provider guard, model unset) and makes no provider
\* call; one whose most recent user message mentions it goes on to the
\* orchestrator.  "hello" does not mention Marion, "hello Marion" and
\* "hey marion!" do, "Marionette" does not.
C3_WakeWordRequire ==
    /\ ~mentions_name(Hello) /\ ~mentions_name(Marionette) /\ ~mentions_name(<<>>)
    /\ mentions_name(HelloMarion) /\ mentions_name(HeyMarion)
    /\ WAKE_WORD_MODE = "require" =>
          \A s \in DOMAIN reqs :
              LET c == reqs[s]
              IN  Reached(c, "gate") =>
                    IF mentions_name(LastUserText(Conversation(c)))
                    THEN Reached(c, "orchestrate")
                    ELSE /\ IsWaitingReply(c)
                         /\ c.calls = <<>>
                         /\ ~Reached(c, "orchestrate")
    /\ WAKE_WORD_MODE = "require" =>
          \A s \in DOMAIN reqs :
              (HasConversation(reqs[s])
                 /\ ~mentions_name(LastUserText(Conversation(reqs[s])))) =>
                  reqs[s].calls = <<>>

\* the gate stays shut although an earlier user message mentions the name
C3_Witness ==
    /\ WAKE_WORD_MODE = "require"
    /\ \E s \in DOMAIN reqs :
          /\ Reached(reqs[s], "gate")
          /\ IsWaitingReply(reqs[s])
          /\ reqs[s].calls = <<>>
          /\ \E i \in 1..(Len(Conversation(reqs[s])) - 1) :
                /\ Conversation(reqs[s])[i].role = "user"
                /\ mentions_name(Conversation(reqs[s])[i].content)

\* ------------------------------------------------------------ the orchestrator
BothConfigured == GROQ_API_KEY # "" /\ HF_API_TOKEN # ""
NoneConfigured == GROQ_API_KEY = "" /\ HF_API_TOKEN = ""
OnlySecondary == GROQ_API_KEY = "" /\ HF_API_TOKEN # ""

\* the call was answered and the answer is an error of any kind: no answer
\* at all, a status of 400 or more, a body that does not decode, a decoded
\* body without the reply (expect names the shapes that hold one)
CallFailed(call, expect) ==
    \/ ~call.answer.sent
    \/ call.answer.status >= 400
    \/ call.answer.json \notin expect

\* the request has ended and its first call, to Groq, failed
PrimaryFailed(c) ==
    /\ c.pc = "done"
    /\ Len(c.calls) >= 1
    /\ c.calls[1].provider = "groq"
    /\ CallFailed(c.calls[1], {"choices"})

\* C4: with both credentials configured, a primary call that fails with any
\* error (non-success status, unexpected shape, transport failure or
\* timeout, undecodable body) is followed by an attempt at the secondary,
\* with the conversation the primary was given.
C4_FallbackOnAnyError ==
    BothConfigured =>
        \A s \in DOMAIN reqs :
            PrimaryFailed(reqs[s]) =>
                /\ Len(reqs[s].calls) = 2
                /\ reqs[s].calls[2].provider = "huggingface"
                /\ \E t \in 0..now :
                      reqs[s].calls[2].inputs
                        = to_instruct_prompt(reqs[s].calls[1].messages, t)

\* the secondary was called after the primary failed, and failed too
BothFailed(c) ==
    /\ PrimaryFailed(c)
    /\ Len(c.calls) = 2
    /\ c.calls[2].provider = "huggingface"
    /\ CallFailed(c.calls[2], {"list", "dict", "other"})

\* the response is the error of this call: the status and the body of the
\* upstream answer, or the plain 500 of an exception that is no HTTPException
IsErrorOf(c, call) ==
    IF call.answer.sent /\ call.answer.status >= 400
    THEN IsError(c, call.answer.status, call.answer.text)
    ELSE /\ c.pc = "done"
         /\ c.resp.status = 500
         /\ c.resp.body = [text |-> "Internal Server Error"]

\* C5: with both credentials configured, when the primary call and the
\* fallback call both fail, the caller gets the error of the secondary (its
\* status code and body), never that of the primary.
C5_SecondaryErrorSurfaces ==
    BothConfigured =>
        \A s \in DOMAIN reqs :
            BothFailed(reqs[s]) =>
                /\ IsErrorOf(reqs[s], reqs[s].calls[2])
                /\ reqs[s].resp # Respond(reqs[s].e)

\* Groq answered 500 and Hugging Face 503: the response is the 503
C5_Witness ==
    /\ BothConfigured
    /\ \E s \in DOMAIN reqs :
          /\ BothFailed(reqs[s])
          /\ reqs[s].calls[1].answer.status = 500
          /\ reqs[s].calls[2].answer.status = 503
          /\ reqs[s].resp.status = 503

\* C6 as claimed: with no credential configured every chat request fails
\* with 500 "no provider configured" and no provider call is attempted,
\* whatever its content, the wake-word mode or the state of the rate limit.
C6_AlwaysConfigurationError ==
    NoneConfigured =>
        \A s \in DOMAIN reqs :
            /\ reqs[s].calls = <<>>
            /\ reqs[s].pc = "done" =>
                  IsError(reqs[s], 500,
                          "No provider configured. Set GROQ_API_KEY or HF_API_TOKEN.")

\* C6 as amended: with no credential configured no provider call is ever
\* attempted and no request gets a provider's reply; every request that
\* reaches the orchestrator fails with 500 "no provider configured"; a chat
\* request stopped before it gets the answer of the stage that stopped it
\* (400, 429, a plain 500, the waiting reply).
C6_NoProviderNoCall ==
    NoneConfigured =>
        \A s \in DOMAIN reqs :
            LET c == reqs[s]
            IN  /\ c.calls = <<>>
                /\ c.pc \in {"idle", "body", "done"}
                /\ Reached(c, "orchestrate") =>
                      IsError(c, 500,
                              "No provider configured. Set GROQ_API_KEY or HF_API_TOKEN.")
                /\ (c.path = "/api/chat" /\ c.pc = "done" /\ ~Reached(c, "orchestrate")) =>
                      \/ c.resp.status \in {400, 429}
                      \/ c.resp.status = 500 /\ DOMAIN c.resp.body = {"text"}
                      \/ IsWaitingReply(c)

\* a request that came through the limiter and the gate and found no provider
C6_Witness ==
    /\ NoneConfigured
    /\ \E s \in DOMAIN reqs :
          /\ Reached(reqs[s], "orchestrate")
          /\ reqs[s].calls = <<>>
          /\ IsError(reqs[s], 500,
                     "No provider configured. Set GROQ_API_KEY or HF_API_TOKEN.")

\* the response is the canonical reply of this provider
IsReplyOf(c, provider, model, text) ==
    /\ c.pc = "done"
    /\ c.resp.status = 200
    /\ c.resp.body = [reply |-> text, usage |-> <<>>, model |-> model,
                      provider |-> provider]

\* C7: with only the Hugging Face credential configured no request calls
\* Groq; a secondary call that succeeds is returned as a canonical reply with
\* provider huggingface and the model id of the secondary; one that fails
\* propagates its error unchanged, with no further attempt.
C7_SecondaryOnly ==
    OnlySecondary =>
        \A s \in DOMAIN reqs :
            LET c == reqs[s]
            IN  /\ \A i \in 1..Len(c.calls) : c.calls[i].provider = "huggingface"
                /\ Len(c.calls) <= 1
                /\ Reached(c, "orchestrate") => Len(c.calls) = 1
                /\ (c.pc = "done" /\ Len(c.calls) = 1) =>
                      IF CallFailed(c.calls[1], {"list", "dict", "other"})
                      THEN IsErrorOf(c, c.calls[1])
                      ELSE IsReplyOf(c, "huggingface", HF_MODEL,
                                     IF c.calls[1].answer.json = "other" THEN ""
                                     ELSE c.calls[1].answer.text)

\* the only provider answered 503 and the caller got the 503
C7_Witness ==
    /\ OnlySecondary
    /\ \E s \in DOMAIN reqs :
          /\ Len(reqs[s].calls) = 1
          /\ reqs[s].calls[1].provider = "huggingface"
          /\ reqs[s].calls[1].answer.status = 503
          /\ IsError(reqs[s], 503, reqs[s].calls[1].answer.text)

\* ------------------------------------------------------------ the normalizer and the reply
\* C8: a conversation longer than the maximum of 40 messages is rejected
\* with a client (4xx) error and no provider is called.
C8_LongConversationRejected ==
    \A s \in DOMAIN reqs :
        LET c == reqs[s]
        IN  (HasConversation(c) /\ Len(Conversation(c)) > 40) =>
              /\ c.pc = "done"
              /\ c.resp.status >= 400 /\ c.resp.status < 500
              /\ c.calls = <<>>

\* a conversation of 41 messages, with the system message put before it, is
\* on its way to a provider
C8_LongConversationSent ==
    \E s \in DOMAIN reqs :
        /\ HasConversation(reqs[s])
        /\ Len(Conversation(reqs[s])) = 41
        /\ reqs[s].pc = "groq"
        /\ Len(reqs[s].calls[1].messages) = 42

\* the temperature the request supplied, in tenths; 7 (0.7) when it
\* supplied none
Supplied(c) ==
    IF "temperature" \in DOMAIN Inputs[c.inp].body.v
    THEN Inputs[c.inp].body.v.temperature.v[1]
    ELSE 7

\* C9: the temperature sent to a provider is within [0.0, 1.5]: a value
\* below 0.0 is sent as 0.0, a value above 1.5 as 1.5, an omitted one as 0.7.
C9_TemperatureClamped ==
    \A s \in DOMAIN reqs :
        \A i \in 1..Len(reqs[s].calls) :
            LET sent == reqs[s].calls[i].temperature
                given == Supplied(reqs[s])
            IN  /\ sent >= 0 /\ sent <= 15
                /\ given < 0 => sent = 0
                /\ given > 15 => sent = 15
                /\ given \in 0..15 => sent = given

\* C10: every 200 response of POST /api/chat (primary, fallback,
\* secondary-only, wake-word reply) carries the four fields reply, usage,
\* model and provider.
C10_CanonicalReply ==
    \A s \in DOMAIN reqs :
        (reqs[s].pc = "done" /\ reqs[s].resp.status = 200) =>
            DOMAIN reqs[s].resp.body = {"reply", "usage", "model", "provider"}

\* ------------------------------------------------------------ concurrent requests
\* the calls among hs[1..i] made in the window of call i that reported
\* not-exceeded
AcceptedInWindow(hs, i) ==
    LET w == Windows(hs)
    IN  {j \in 1..i : w[j].start = w[i].start /\ ~hs[j].exceeded}

\* C11: however the requests handled at once interleave at their awaits, no
\* increment of a rate-limit entry is lost: after n calls of hit() for one
\* bucket and key inside one window the entry's count is exactly n, and at
\* most limit of them were reported not-exceeded.
C11_NoLostIncrement ==
    \A key \in KeysHit :
        LET hs == HitsOf(key)
            w  == Windows(hs)
        IN  /\ EntryOf(hs[Len(hs)]).count = w[Len(hs)].n
            /\ \A i \in 1..Len(hs) :
                  Cardinality(AcceptedInWindow(hs, i)) <= hs[i].limit

\* three requests of one client have passed the limiter while the first of
\* them is still suspended in its provider call: the third was refused
C11_Witness ==
    /\ PER_MINUTE = 2
    /\ Len(HitsOf("min:10.0.0.1")) = 3
    /\ rate_min["min:10.0.0.1"].count = 3
    /\ \E s1, s2 \in DOMAIN reqs :
          /\ s1 # s2
          /\ reqs[s1].pc = "groq" /\ reqs[s1].inp = 7
          /\ reqs[s2].inp = 7
          /\ IsError(reqs[s2], 429, "Per-minute limit hit.")

\* ------------------------------------------------------------ the order of the pipeline
\* the stages of the control flow, in the order the specification gives them
PipelineOrder == <<"limit", "validate", "gate", "inject", "orchestrate">>

\* the stages of the control flow the request has entered, in order
PipelineStages(c) ==
    SelectSeq(c.stages, LAMBDA x : \E k \in 1..Len(PipelineOrder) : PipelineOrder[k] = x)

\* C12: the stages of every request run in the order rate limiter, message
\* normalizer, wake-word gate, context injector, provider orchestrator: the
\* request is counted and can be rejected by the limiter before its message
\* list is validated.
C12_LimiterBeforeValidation ==
    \A s \in DOMAIN reqs :
        LET st == PipelineStages(reqs[s])
        IN  /\ Len(st) <= Len(PipelineOrder)
            /\ \A k \in 1..Len(st) : st[k] = PipelineOrder[k]

\* a client whose minute window is used up (its last request got 429) sends
\* an empty message list: the answer is 400 and the request is not counted
C12_RejectedUncounted ==
    /\ hits # <<>>
    /\ hits[Len(hits)].key = "min:10.0.0.1" /\ hits[Len(hits)].exceeded
    /\ \E s \in DOMAIN reqs :
          /\ reqs[s].inp = 5
          /\ IsError(reqs[s], 400, "messages[] is required")
          /\ reqs[s].stages = <<"parse", "validate">>
          /\ reqs[s].checks = <<>>

\* ------------------------------------------------------------ the client's address
\* the address by the precedence of the specification: the first value of the
\* forwarding header if it is an address, else the direct connection address
\* if it is one, else the fallback
ClaimedAddress(req) ==
    IF IsAddress(Strip(FirstField(req.xff))) THEN Strip(FirstField(req.xff))[1]
    ELSE IF IsAddress(req.host) THEN req.host[1]
    ELSE "0.0.0.0"

\* the key of the first hit() a request made; requests are handled one after
\* the other, so the calls of the request in hand are the last ones logged
CountedAs(c) == hits[Len(hits) - Len(c.checks) + 1].key

\* C13: client_ip returns the first value of the forwarding header if it is
\* a valid address, else the direct connection address if it is valid, else
\* 0.0.0.0; the fallback only when neither source is a valid address. Every
\* request is counted under the key of that address.
C13_AddressPrecedence ==
    \A s \in DOMAIN reqs :
        reqs[s].checks # <<>> =>
            CountedAs(reqs[s]) = "min:" \o ClaimedAddress(Inputs[reqs[s].inp].meta)

\* a request with a forwarding header that is no address, sent over a
\* connection from 10.0.0.1, is counted under the fallback address
C13_CountedAsFallback ==
    \E s \in DOMAIN reqs :
        /\ reqs[s].inp = 16
        /\ reqs[s].checks # <<>>
        /\ IsAddress(Inputs[reqs[s].inp].meta.host)
        /\ CountedAs(reqs[s]) = "min:0.0.0.0"

\* ------------------------------------------------------------ the flattened prompt
\* the prompt by the specification: one line per message, then "Assistant:"
ClaimedPrompt(messages) ==
    Join([i \in 1..Len(messages) |-> PromptLine(messages[i])] \o << <<"Assistant:">> >>)

\* the calls the request made to Hugging Face
HfCalls(c) == {k \in 1..Len(c.calls) : c.calls[k].provider = "huggingface"}

\* C14: the prompt sent to the free-text provider is exactly one line per
\* message of the conversation the adapter is given, in order, followed by
\* the line "Assistant:", and nothing else.
C14_PromptIsConversation ==
    \A s \in DOMAIN reqs :
        \A k \in HfCalls(reqs[s]) :
            reqs[s].calls[k].inputs = ClaimedPrompt(reqs[s].messages)

\* the prompt made of the single message {role: user, content: "hello
\* Marion"}: the system message comes twice, as a "System: " line and as the
\* verbatim line of the injected message, before "User: hello Marion"
C14_SystemLineTwice ==
    \E s \in DOMAIN reqs :
        \E k \in HfCalls(reqs[s]) :
            /\ reqs[s].inp = 7
            /\ reqs[s].calls[k].inputs
                 = <<"System: ">> \o time_system_message(now) \o <<"\n">>
                   \o time_system_message(now) \o <<"\n">>
                   \o <<"User: ">> \o HelloMarion \o <<"\n", "Assistant:">>

\* ------------------------------------------------------------ the end of a window
\* the calls among hs[i..j] that reported not-exceeded
Accepted(hs, i, j) == {k \in i..j : ~hs[k].exceeded}

\* C15: for every key, limit and arrival pattern, the calls of hit() whose
\* timestamps fall within one span of the window's length hold at most
\* 2 x limit calls that reported not-exceeded.
C15_TwiceLimitPerSpan ==
    \A key \in KeysHit :
        LET hs == HitsOf(key)
        IN  \A i \in 1..Len(hs) : \A j \in i..Len(hs) :
                hs[j].t - hs[i].t <= hs[i].ttl =>
                    Cardinality(Accepted(hs, i, j)) <= 2 * hs[i].limit

\* calls clustered at the end of a window: within one span of the window's
\* length more calls than limit were accepted, the last of the old window and
\* the first of the new one, and the next call was refused
C15_Witness ==
    \E key \in KeysHit :
        LET hs == HitsOf(key)
            w  == Windows(hs)
        IN  \E i \in 1..Len(hs) : \E j \in i..Len(hs) :
                /\ hs[j].t - hs[i].t <= hs[i].ttl
                /\ w[i].start # w[j].start
                /\ Cardinality(Accepted(hs, i, j)) > hs[i].limit
                /\ hs[i].limit = 2
                /\ j < Len(hs) /\ hs[j + 1].exceeded /\ hs[j + 1].t = hs[j].t

\* ------------------------------------------------------------ one call per provider
\* the calls the request made to Groq
GroqCalls(c) == {k \in 1..Len(c.calls) : c.calls[k].provider = "groq"}

\* C16: a request makes at most one call to Groq and at most one to Hugging
\* Face; with both configured Hugging Face is called only as the second
\* call, after the call to Groq was answered with a failure; a request that
\* has ended after a failed call made no further call to that provider.
C16_OneCallPerProvider ==
    \A s \in DOMAIN reqs :
        LET c == reqs[s]
        IN  /\ Cardinality(GroqCalls(c)) <= 1
            /\ Cardinality(HfCalls(c)) <= 1
            /\ \A k \in GroqCalls(c) : k = 1
            /\ BothConfigured =>
                  \A k \in HfCalls(c) :
                      /\ k = 2
                      /\ c.calls[1].provider = "groq"
                      /\ CallFailed(c.calls[1], {"choices"})

\* both providers were called once, Groq first, and both failed (Groq with a
\* body of the wrong shape, Hugging Face with no answer): the request ended
\* with two calls made
C16_Witness ==
    /\ BothConfigured
    /\ \E s \in DOMAIN reqs :
          /\ BothFailed(reqs[s])
          /\ reqs[s].calls[1].answer.json = "other"
          /\ ~reqs[s].calls[2].answer.sent
          /\ reqs[s].resp.status = 500

\* ------------------------------------------------------------ the streaming route
\* C17: a POST to /api/chat/stream is answered with an event stream relayed
\* from the provider: the response is a 200 and the request made one upstream
\* call with streaming requested, whose lines are forwarded as data events in
\* order, a transport error in mid-stream as one final error event.
C17_StreamRelayed ==
    \A s \in DOMAIN reqs :
        (reqs[s].path = "/api/chat/stream" /\ reqs[s].pc = "done") =>
            /\ reqs[s].resp.status = 200
            /\ Len(reqs[s].calls) = 1
            /\ reqs[s].calls[1].stream

\* a POST to /api/chat/stream answered 404, no provider called
C17_StreamNotFound ==
    \E s \in DOMAIN reqs :
        /\ reqs[s].path = "/api/chat/stream"
        /\ IsError(reqs[s], 404, "Not Found")
        /\ reqs[s].calls = <<>>

\* ------------------------------------------------------------ rejected requests
\* one of the windows reported exceeded to the request
Limited(c) == \E k \in 1..Len(c.checks) : c.checks[k].exceeded

\* C18: in every wake-word mode and provider configuration, a request that a
\* rate-limit window reported exceeded to ends with status 429 at once and
\* never has a provider call, and a request answered 429 made none.
C18_RejectedNeverCalls ==
    \A s \in DOMAIN reqs :
        LET c == reqs[s]
        IN  /\ Limited(c) => c.pc = "done" /\ c.resp.status = 429 /\ c.calls = <<>>
            /\ (c.pc = "done" /\ c.resp.status = 429) => c.calls = <<>>

\* with both providers configured and the gate off, a request that mentions
\* the name was refused by the minute window and called no provider
C18_Witness ==
    /\ BothConfigured
    /\ WAKE_WORD_MODE = "off"
    /\ \E s \in DOMAIN reqs :
          /\ reqs[s].inp = 7
          /\ IsError(reqs[s], 429, "Per-minute limit hit.")
          /\ reqs[s].calls = <<>>

\* ------------------------------------------------------------ what a hit leaves alone
\* the address the request is counted under
AddressOf(c) == client_ip(Inputs[c.inp].meta)

\* the bucket after holds every entry of the bucket before unchanged, but for
\* the entries of these keys, and no other new entry
SameBut(before, after, keys) ==
    /\ DOMAIN before \subseteq DOMAIN after
    /\ \A k \in DOMAIN after \ keys : k \in DOMAIN before /\ after[k] = before[k]

\* C19: the step in which a request is rejected by the short window leaves
\* the long-window bucket as it was (no count raised, no entry created), and
\* the step in which a request is counted leaves the entries of every other
\* client unchanged in both buckets.
C19_HitFrame ==
    [][\A s \in DOMAIN reqs :
          (reqs[s].pc = "body" /\ reqs'[s].pc # "body") =>
              /\ IsError(reqs'[s], 429, "Per-minute limit hit.") => rate_day' = rate_day
              /\ reqs'[s].checks = <<>> => rate_min' = rate_min /\ rate_day' = rate_day
              /\ SameBut(rate_min, rate_min', {"min:" \o AddressOf(reqs'[s])})
              /\ SameBut(rate_day, rate_day', {"day:" \o AddressOf(reqs'[s])})]_vars

\* 10.0.0.1 was refused by the minute window after 10.0.0.2 was counted: the
\* minute entry of 10.0.0.1 is at 2 and its day entry still at 1, the entries
\* of 10.0.0.2 are at 1
C19_Witness ==
    /\ Len(hits) = 5
    /\ \E s \in DOMAIN reqs :
          /\ IsError(reqs[s], 429, "Per-minute limit hit.")
          /\ AddressOf(reqs[s]) = "10.0.0.1"
    /\ DOMAIN rate_min = {"min:10.0.0.1", "min:10.0.0.2"}
    /\ DOMAIN rate_day = {"day:10.0.0.1", "day:10.0.0.2"}
    /\ rate_min["min:10.0.0.1"].count = 2
    /\ rate_day["day:10.0.0.1"].count = 1
    /\ rate_min["min:10.0.0.2"].count = 1
    /\ rate_day["day:10.0.0.2"].count = 1
    /\ hits[1].key = "min:10.0.0.1" /\ hits[3].key = "min:10.0.0.2"

\* ------------------------------------------------------------ what is counted
\* the requests in hand that were counted for the address of c and that the
\* window of this bucket (1: minute, 2: day) let pass
PassedWith(c, k) ==
    {s \in DOMAIN reqs : /\ Len(reqs[s].checks) >= k
                         /\ AddressOf(reqs[s]) = AddressOf(c)
                         /\ ~reqs[s].checks[k].exceeded}

\* the requests that have arrived and were not counted (so far)
Uncounted == {s \in DOMAIN reqs : reqs[s].pc # "idle" /\ reqs[s].checks = <<>>}

\* the calls of hit() on the minute window
MinuteHits == SelectSeq(hits, LAMBDA h : h.bucket = "min")

\* C20: a request short-circuited by the wake-word gate was counted in the
\* minute and the day window of its client: it takes one of the limit
\* places of each window, so that with the places taken by such requests a
\* request of the same client that mentions the name is refused with 429; a
\* request rejected for a missing or empty message list was not counted.
C20_GuardedIsCounted ==
    /\ \A s \in DOMAIN reqs :
          LET c == reqs[s]
          IN  /\ IsWaitingReply(c) =>
                    /\ c.checks = <<[bucket |-> "min", exceeded |-> FALSE],
                                    [bucket |-> "day", exceeded |-> FALSE]>>
                    /\ s \in PassedWith(c, 1) /\ s \in PassedWith(c, 2)
                    /\ Cardinality(PassedWith(c, 1)) <= PER_MINUTE
                    /\ Cardinality(PassedWith(c, 2)) <= DAILY_CAP
                    /\ rate_min["min:" \o AddressOf(c)].count
                         = Len(HitsOf("min:" \o AddressOf(c)))
                    /\ rate_day["day:" \o AddressOf(c)].count
                         = Len(HitsOf("day:" \o AddressOf(c)))
              /\ IsError(c, 400, "messages[] is required") => c.checks = <<>>
    /\ Len(MinuteHits) + Cardinality(Uncounted) <= arrivals

\* PER_MINUTE = 1: a request without the name got the waiting reply, and the
\* next request of the same client, with the name, is refused with 429; a
\* third request, with an empty message list, was not counted
C20_Witness ==
    /\ PER_MINUTE = 1
    /\ arrivals = 3
    /\ Len(MinuteHits) = 2
    /\ \E s1, s2 \in DOMAIN reqs :
          /\ reqs[s1].inp = 6 /\ IsWaitingReply(reqs[s1])
          /\ reqs[s2].inp = 7 /\ IsError(reqs[s2], 429, "Per-minute limit hit.")
          /\ AddressOf(reqs[s1]) = AddressOf(reqs[s2])
====
